---- MODULE Spec2Model ----
(***************************************************************************)
(* State-machine model of the BuyBuzz backend (src/index.js): the wallet   *)
(* ledger, Paystack top-up settlement (webhook and manual verification),   *)
(* the data-bundle purchase with its order-code counter, and the wallet    *)
(* transfer.                                                               *)
(*                                                                         *)
(* express.json() is installed for every route (line 16), ahead of the     *)
(* webhook route's express.raw(): the webhook handler receives a parsed    *)
(* body, its HMAC computation throws, and every notification is answered   *)
(* 500 before the signature is compared.                                   *)
(*                                                                         *)
(* Every `await pool.query(...)` / `await axios...` of a handler is one    *)
(* atomic step; the synchronous JavaScript before the next await belongs   *)
(* to the step.  Request slots (Procs) interleave at those awaits.         *)
(*                                                                         *)
(* Money stored in a DECIMAL(10,2) column is an integer number of          *)
(* pesewas (1/100 GHS).  Amounts arriving in a request body are JavaScript *)
(* numbers and are modelled in mills (1/1000 GHS), so that the roundings   *)
(* done by Math.round and by the DECIMAL column are real conversions.      *)
(*                                                                         *)
(* All statements go through pool.query.  A statement is an atomic step    *)
(* here, so the pool always has its one connection free and hands it to    *)
(* every statement: START TRANSACTION / COMMIT / ROLLBACK act on that one  *)
(* shared session (conn), whichever request issued them.                   *)
(***************************************************************************)
EXTENDS Integers, Sequences, FiniteSets, Bags, TLC

VARIABLES
    db,        \* the MySQL tables as the shared session sees them
    conn,      \* transaction state of the pooled connection
    paystack,  \* the payment provider's transactions, by reference
    pc,        \* per request slot: the await the handler is suspended at
    local,     \* per request slot: the handler's local variables
    res,       \* per request slot: the last response sent
    timers,    \* bag of the order codes of the pending setTimeout callbacks
    credits,   \* history: per reference, the balance credits executed
    budget,    \* number of requests the server will still receive
    clock      \* Date.now(), in milliseconds

vars == <<db, conn, paystack, pc, local, res, timers, credits, budget, clock>>

-----------------------------------------------------------------------------
(* Bounds of the model *)

\* total number of HTTP requests the server receives in one behaviour
MaxRequests == 3
\* number of top-ups the provider opens (one fresh reference each)
MaxTopups == 1
\* number of purchase requests in the behaviours of racing purchases
MaxPurchases == 4
\* requests received in a behaviour of transfers
MaxTransfers == 2
\* milliseconds the clock advances in a behaviour
MaxClock == 1
MaxSignups == 3

-----------------------------------------------------------------------------
(* Program constants *)

\* INSERT INTO order_sequence (last_number) VALUES (4000)
InitialLastNumber == 4000
\* orders.beneficiary_number VARCHAR(20)
BeneficiaryMaxLen == 20

\* accounts that exist (users rows, each with its wallets row)
Users == {1, 2}

\* provider references handed out by transaction/initialize
Refs == 1..MaxTopups

\* wallet_transactions.reference of an entry without one (SQL NULL)
NullRef == 0

\* reference of the already settled top-up that funded a seeded balance
SeedRef(u) == 0 - u

\* data_bundle_products rows (prices in pesewas); the AirtelTigo row has
\* been set inactive through the admin route
Products ==
    { [network |-> "MTN", bundle_size |-> "1GB", price |-> 1000, status |-> "active"],
      [network |-> "MTN", bundle_size |-> "2GB", price |-> 1800, status |-> "active"],
      [network |-> "Telecel", bundle_size |-> "1GB", price |-> 900, status |-> "active"],
      [network |-> "AirtelTigo", bundle_size |-> "1GB", price |-> 800,
       status |-> "inactive"] }

\* the networks the purchase handler accepts
Networks == {"MTN", "Telecel", "AirtelTigo"}

-----------------------------------------------------------------------------
(* Inputs drawn by the requests *)

\* `amount` of a top-up request body, in mills
TopupAmounts == {0 - 5000, 0, 19996}

\* wallet balances (pesewas) the accounts hold when the behaviour starts
SeedBalances == {0, 900, 2000}

\* the seeded wallets: account 1 funded, account 2 empty
SeedWallets == { b \in [Users -> SeedBalances] : b[2] = 0 }

\* (network, bundle_size) selections of a purchase request
Selections ==
    { <<"MTN", "1GB">>, <<"MTN", "2GB">>, <<"Telecel", "1GB">>, <<"MTN", "3GB">>,
      <<"Glo", "1GB">>, <<"AirtelTigo", "1GB">> }

\* lengths of the beneficiary_number of a purchase request
BeneficiaryLens == {0, 10, 21}

\* event kinds of a signed notification
EventKinds == {"charge.success", "charge.failed"}

-----------------------------------------------------------------------------
(* Conversions *)

\* Math.round(amount * 100): GHS (here mills) to kobo, half rounds up
AmountInKobo(mills) == (mills + 5) \div 10

\* a request amount stored into a DECIMAL(10,2) column: rounded half away
\* from zero to two places (pesewas)
ToDecimal2(mills) ==
    IF mills >= 0 THEN (mills + 5) \div 10 ELSE 0 - ((5 - mills) \div 10)

\* the provider's amount taken as it is, without the division
AmountUndivided(kobo) == kobo

\* amount / 100: kobo of a notification or verification to GHS (mills)
AmountInGHS(kobo) == kobo * 10

Abs(n) == IF n < 0 THEN 0 - n ELSE n

RECURSIVE DigitsOf(_)
\* the decimal digits of a natural number as character codes
DigitsOf(n) ==
    IF n < 10 THEN <<48 + n>> ELSE DigitsOf(n \div 10) \o <<48 + (n % 10)>>

\* mysql2 returns a DECIMAL(10,2) column as a string ("9.00", "-1.00"):
\* the pool sets no decimalNumbers option.  Strings are sequences of
\* character codes ('-' 45, '.' 46, '0' 48).
DecimalString(p) ==
    (IF p < 0 THEN <<45>> ELSE <<>>)
        \o DigitsOf(Abs(p) \div 100)
        \o <<46, 48 + ((Abs(p) % 100) \div 10), 48 + (Abs(p) % 10)>>

RECURSIVE StringLess(_, _)
\* JavaScript `s < t` on two strings: code units compared left to right
StringLess(s, t) ==
    IF t = <<>> THEN FALSE
    ELSE IF s = <<>> THEN TRUE
    ELSE IF Head(s) # Head(t) THEN Head(s) < Head(t)
    ELSE StringLess(Tail(s), Tail(t))

-----------------------------------------------------------------------------
(* Tables *)

RECURSIVE SumAmounts(_)
SumAmounts(rows) ==
    IF rows = <<>> THEN 0 ELSE Head(rows).amount + SumAmounts(Tail(rows))

\* the entries a seeded balance comes from: one completed top-up
SeedEntries(u, b) ==
    IF b = 0 THEN <<>>
    ELSE << [user_id |-> u, transaction_id |-> <<"PAY", SeedRef(u)>>,
             reference |-> SeedRef(u), type |-> "credit", amount |-> b,
             status |-> "completed"] >>

NoLocal == [op |-> "none"]
NoResponse == [op |-> "none", status |-> 0]
NoSnapshot == [none |-> TRUE]
NoCredits == [delivered |-> 0, webhook |-> 0, verify |-> 0, settled_by |-> "none",
              to |-> [u \in Users |-> 0]]

\* UPDATE wallets SET balance = balance + ? WHERE user_id = ?
\* (the sum is stored back into the DECIMAL(10,2) column)
AddBalance(d, u, mills) ==
    [d EXCEPT !.wallets[u] = ToDecimal2(@ * 10 + mills)]

\* UPDATE wallets SET balance = balance - ? WHERE user_id = ?
SubBalance(d, u, mills) ==
    [d EXCEPT !.wallets[u] = ToDecimal2(@ * 10 - mills)]

\* an insert that also applies the row's amount to its owner's balance
InsertAndApply(d, row) ==
    [d EXCEPT !.wallet_transactions = Append(@, row),
              !.wallets[row.user_id] = @ + row.amount]

\* INSERT INTO wallet_transactions (...) VALUES (...)
InsertTransaction(d, row) ==
    [d EXCEPT !.wallet_transactions = Append(@, row)]

\* `${prefix}-${Date.now()}-${Math.random()...}`: an identifier no other
\* row carries
FreshTransactionId(d, prefix) == <<prefix, Len(d.wallet_transactions) + 1>>

-----------------------------------------------------------------------------
(* The pooled session: pool.query('START TRANSACTION' | 'COMMIT' | 'ROLLBACK') *)

\* START TRANSACTION commits an open transaction and opens a new one
StartTransaction(d) == [inTx |-> TRUE, snapshot |-> d]

\* COMMIT makes the statements since START TRANSACTION durable
Commit == [inTx |-> FALSE, snapshot |-> NoSnapshot]

\* ROLLBACK undoes every statement the session ran since its last
\* START TRANSACTION; without an open transaction it undoes nothing
RolledBack(d, c) == IF c.inTx THEN c.snapshot ELSE d

-----------------------------------------------------------------------------
(* Request slots *)

Idle(p) == pc[p] = "idle"

\* the handler of slot p sends `response` and ends
Respond(p, response) ==
    /\ res' = [res EXCEPT ![p] = response]
    /\ pc' = [pc EXCEPT ![p] = "idle"]
    /\ local' = [local EXCEPT ![p] = NoLocal]
    /\ UNCHANGED clock

\* the handler of slot p suspends at await `label` with locals `l`
Await(p, label, l) ==
    /\ pc' = [pc EXCEPT ![p] = label]
    /\ local' = [local EXCEPT ![p] = l]
    /\ UNCHANGED <<res, clock>>

\* a test that lets the amount zero through
AmountNegative(amount) ==
    amount < 0

\* `!amount || amount <= 0` on a JSON number: zero is falsy, a negative
\* number is caught by the comparison
InvalidAmount(amount) ==
    amount = 0 \/ amount <= 0

\* a request arrives at the idle slot p
Receive(p) ==
    /\ Idle(p)
    /\ budget > 0
    /\ budget' = budget - 1

-----------------------------------------------------------------------------
(* POST /api/wallet/topup/initialize *)

\* the request arrives: `!amount || amount <= 0` answers 400, otherwise
\* the handler awaits Paystack's transaction/initialize
TopupInitialize(p, u, amount) ==
    /\ Receive(p)
    /\ IF InvalidAmount(amount)
       THEN Respond(p, [op |-> "topup", status |-> 400, amount |-> amount,
                        error |-> "Valid amount is required"])
       ELSE Await(p, "ti_post", [op |-> "topup", user_id |-> u, amount |-> amount])
    /\ UNCHANGED <<db, conn, paystack, timers, credits>>

\* axios.post resolves: the provider opened a transaction under a fresh
\* reference for Math.round(amount * 100) kobo
TopupPosted(p) ==
    /\ pc[p] = "ti_post"
    /\ \E r \in Refs :
        /\ paystack[r].status = "none"
        /\ \A q \in Refs : q < r => paystack[q].status # "none"
        /\ paystack' = [paystack EXCEPT ![r] =
               [status |-> "pending", amount |-> AmountInKobo(local[p].amount),
                user_id |-> local[p].user_id]]
        /\ Await(p, "ti_insert",
                 [local[p] EXCEPT !.op = "topup"] @@ [reference |-> r])
    /\ UNCHANGED <<db, conn, timers, credits, budget>>

\* axios.post rejects (provider error): the catch answers 500
TopupPostFailed(p) ==
    /\ pc[p] = "ti_post"
    /\ Respond(p, [op |-> "topup", status |-> 500])
    /\ UNCHANGED <<db, conn, paystack, timers, credits, budget>>

\* INSERT INTO wallet_transactions (... 'credit', amount, 'pending' ...)
TopupInsert(p) ==
    /\ pc[p] = "ti_insert"
    /\ db' = InsertTransaction(db,
                [user_id |-> local[p].user_id,
                 transaction_id |-> FreshTransactionId(db, "PAY"),
                 reference |-> local[p].reference,
                 type |-> "credit",
                 amount |-> ToDecimal2(local[p].amount),
                 status |-> "pending"])
    /\ Respond(p, [op |-> "topup", status |-> 200, reference |-> local[p].reference])
    /\ UNCHANGED <<conn, paystack, timers, credits, budget>>

\* the customer completes the payment on the provider's page
CustomerPays(r) ==
    /\ paystack[r].status = "pending"
    /\ paystack' = [paystack EXCEPT ![r].status = "success"]
    /\ UNCHANGED <<db, conn, pc, local, res, timers, credits, budget, clock>>

-----------------------------------------------------------------------------
(* POST /api/webhook/paystack *)

\* the entries recorded under reference r, whatever their status
EntriesByReference(d, r) ==
    LET Test(row) == row.reference = r
    IN  SelectSeq(d.wallet_transactions, Test)

\* SELECT * FROM wallet_transactions WHERE reference = ? AND status = "pending"
PendingByReference(d, r) ==
    LET Test(row) == row.reference = r /\ row.status = "pending"
    IN  SelectSeq(d.wallet_transactions, Test)

\* UPDATE wallet_transactions SET status = "completed", amount = ?
\*  WHERE reference = ?
CompleteByReference(d, r, mills) ==
    [d EXCEPT !.wallet_transactions =
        [i \in DOMAIN @ |->
            IF @[i].reference = r
            THEN [@[i] EXCEPT !.status = "completed", !.amount = ToDecimal2(mills)]
            ELSE @[i]]]

\* what the handler finds in req.body.  express.json() is installed for
\* every route before this one: it has read the request and left the parsed
\* JSON value (or, for a request it does not parse, an empty object) in
\* req.body, and the route's express.raw() finds the request already read
\* and leaves req.body as it is.
RequestBody(event, r) == [kind |-> "object", event |-> event, reference |-> r]

\* crypto's Hmac.update takes a string or a byte buffer and throws a
\* TypeError for anything else
HmacUpdateThrows(body) == body.kind \notin {"string", "buffer"}

\* a handler whose UPDATE of wallets has no WHERE clause: every balance
\* gets the notified amount
WebhookCreditEvery(p, signed, event, r) ==
    /\ Receive(p)
    /\ paystack[r].status # "none"
    /\ db' = [db EXCEPT !.wallets =
                 [u \in DOMAIN @ |-> @[u] + ToDecimal2(AmountInGHS(paystack[r].amount))]]
    /\ Respond(p, [op |-> "webhook", status |-> 200, reference |-> r,
                   signed |-> signed, event |-> event, note |-> "settled"])
    /\ UNCHANGED <<conn, paystack, timers, credits>>

\* a handler whose UPDATE has no WHERE clause: every entry is completed
\* with the notified amount
WebhookUpdateEvery(p, signed, event, r) ==
    /\ Receive(p)
    /\ paystack[r].status # "none"
    /\ db' = [db EXCEPT !.wallet_transactions =
                 [i \in DOMAIN @ |->
                     [@[i] EXCEPT !.status = "completed",
                                  !.amount = ToDecimal2(AmountInGHS(paystack[r].amount))]]]
    /\ Respond(p, [op |-> "webhook", status |-> 200, reference |-> r,
                   signed |-> signed, event |-> event, note |-> "settled"])
    /\ UNCHANGED <<conn, paystack, timers, credits>>

\* a notification arrives.  signed: the x-paystack-signature header is the
\* HMAC of the bytes sent under the shared secret.  The provider signs
\* charge.success only for a reference it holds as paid.  The handler runs
\* without an await up to its first query: the hash, the comparison, the
\* parse and the event test belong to this step.
WebhookReceive(p, signed, event, r) ==
    /\ Receive(p)
    /\ paystack[r].status # "none"
    /\ (signed /\ event = "charge.success") => paystack[r].status = "success"
    /\ IF HmacUpdateThrows(RequestBody(event, r))
       THEN Respond(p, [op |-> "webhook", status |-> 500, reference |-> r,
                        signed |-> signed, event |-> event,
                        note |-> "Webhook processing failed"])
       ELSE IF ~signed
       THEN Respond(p, [op |-> "webhook", status |-> 401, reference |-> r,
                        signed |-> signed, event |-> event,
                        note |-> "Invalid signature"])
       ELSE IF event # "charge.success"
       THEN Respond(p, [op |-> "webhook", status |-> 200, reference |-> r,
                        signed |-> signed, event |-> event,
                        note |-> "event ignored"])
       ELSE Await(p, "wh_select",
                  [op |-> "webhook", reference |-> r, amount |-> paystack[r].amount])
    /\ credits' = [credits EXCEPT ![r].delivered =
                      IF /\ signed
                         /\ event = "charge.success"
                         /\ EntriesByReference(db, r) # <<>>
                      THEN @ + 1 ELSE @]
    /\ UNCHANGED <<db, conn, paystack, timers>>

\* The steps below follow the hash in the handler; no notification reaches
\* them (WebhookReceive), and they are not part of Settlement.

\* the SELECT of the pending entries resolves
WebhookSelect(p) ==
    /\ pc[p] = "wh_select"
    /\ LET transactions == PendingByReference(db, local[p].reference)
       IN  IF Len(transactions) > 0
           THEN Await(p, "wh_start",
                      local[p] @@ [transaction |-> transactions[1],
                                   amountInGHS |-> AmountInGHS(local[p].amount)])
           ELSE Respond(p, [op |-> "webhook", status |-> 200,
                            reference |-> local[p].reference,
                            note |-> "no pending entry"])
    /\ UNCHANGED <<db, conn, paystack, timers, credits, budget>>

WebhookStartTransaction(p) ==
    /\ pc[p] = "wh_start"
    /\ conn' = StartTransaction(db)
    /\ Await(p, "wh_update_tx", local[p])
    /\ UNCHANGED <<db, paystack, timers, credits, budget>>

WebhookUpdateTransaction(p) ==
    /\ pc[p] = "wh_update_tx"
    /\ db' = CompleteByReference(db, local[p].reference, local[p].amountInGHS)
    /\ credits' = [credits EXCEPT ![local[p].reference].settled_by =
                      IF @ = "none" /\ Len(PendingByReference(db, local[p].reference)) > 0
                      THEN "webhook" ELSE @]
    /\ Await(p, "wh_update_wallet", local[p])
    /\ UNCHANGED <<conn, paystack, timers, budget>>

WebhookUpdateWallet(p) ==
    /\ pc[p] = "wh_update_wallet"
    /\ db' = AddBalance(db, local[p].transaction.user_id, local[p].amountInGHS)
    /\ credits' = [credits EXCEPT
                      ![local[p].reference].webhook = @ + 1,
                      ![local[p].reference].to[local[p].transaction.user_id] =
                          @ + ToDecimal2(local[p].amountInGHS)]
    /\ Await(p, "wh_commit", local[p])
    /\ UNCHANGED <<conn, paystack, timers, budget>>

WebhookCommit(p) ==
    /\ pc[p] = "wh_commit"
    /\ conn' = Commit
    /\ Respond(p, [op |-> "webhook", status |-> 200, reference |-> local[p].reference,
                   note |-> "processed"])
    /\ UNCHANGED <<db, paystack, timers, credits, budget>>

-----------------------------------------------------------------------------
(* GET /api/wallet/topup/verify/:reference *)

\* an UPDATE by reference alone that also hands the rows to the caller
CompleteAndTakeByReference(d, r, u) ==
    [d EXCEPT !.wallet_transactions =
        [i \in DOMAIN @ |->
            IF @[i].reference = r
            THEN [@[i] EXCEPT !.status = "completed", !.user_id = u]
            ELSE @[i]]]

\* UPDATE wallet_transactions SET status = "completed"
\*  WHERE reference = ? AND user_id = ?
CompleteByReferenceAndUser(d, r, u) ==
    [d EXCEPT !.wallet_transactions =
        [i \in DOMAIN @ |->
            IF @[i].reference = r /\ @[i].user_id = u
            THEN [@[i] EXCEPT !.status = "completed"]
            ELSE @[i]]]

\* the rows the verification's UPDATE moves from pending to completed
PendingByReferenceAndUser(d, r, u) ==
    LET Test(row) == row.reference = r /\ row.user_id = u /\ row.status = "pending"
    IN  SelectSeq(d.wallet_transactions, Test)

\* the authenticated account u asks to verify reference r
VerifyReceive(p, u, r) ==
    /\ Receive(p)
    /\ Await(p, "vf_get", [op |-> "verify", user_id |-> u, reference |-> r])
    /\ UNCHANGED <<db, conn, paystack, timers, credits>>

\* axios.get transaction/verify resolves or rejects
VerifyGet(p) ==
    /\ pc[p] = "vf_get"
    /\ LET tx == paystack[local[p].reference]
       IN  IF tx.status = "none"
           THEN Respond(p, [op |-> "verify", status |-> 500,
                            reference |-> local[p].reference])
           ELSE IF tx.status = "success"
           THEN Await(p, "vf_start", local[p] @@ [amount |-> AmountInGHS(tx.amount)])
           ELSE Respond(p, [op |-> "verify", status |-> 200, success |-> FALSE,
                            reference |-> local[p].reference])
    /\ UNCHANGED <<db, conn, paystack, timers, credits, budget>>

VerifyStartTransaction(p) ==
    /\ pc[p] = "vf_start"
    /\ conn' = StartTransaction(db)
    /\ Await(p, "vf_update_tx", local[p])
    /\ UNCHANGED <<db, paystack, timers, credits, budget>>

VerifyUpdateTransaction(p) ==
    /\ pc[p] = "vf_update_tx"
    /\ db' = CompleteByReferenceAndUser(db, local[p].reference, local[p].user_id)
    /\ credits' = [credits EXCEPT ![local[p].reference].settled_by =
                      IF @ = "none"
                         /\ Len(PendingByReferenceAndUser(db, local[p].reference,
                                                          local[p].user_id)) > 0
                      THEN "verify" ELSE @]
    /\ Await(p, "vf_update_wallet", local[p])
    /\ UNCHANGED <<conn, paystack, timers, budget>>

VerifyUpdateWallet(p) ==
    /\ pc[p] = "vf_update_wallet"
    /\ db' = AddBalance(db, local[p].user_id, local[p].amount)
    /\ credits' = [credits EXCEPT
                      ![local[p].reference].verify = @ + 1,
                      ![local[p].reference].to[local[p].user_id] =
                          @ + ToDecimal2(local[p].amount)]
    /\ Await(p, "vf_commit", local[p])
    /\ UNCHANGED <<conn, paystack, timers, budget>>

VerifyCommit(p) ==
    /\ pc[p] = "vf_commit"
    /\ conn' = Commit
    /\ Await(p, "vf_select", local[p])
    /\ UNCHANGED <<db, paystack, timers, credits, budget>>

\* SELECT * FROM wallets WHERE user_id = ? and the success response
VerifySelect(p) ==
    /\ pc[p] = "vf_select"
    /\ Respond(p, [op |-> "verify", status |-> 200, success |-> TRUE,
                   reference |-> local[p].reference,
                   balance |-> db.wallets[local[p].user_id]])
    /\ UNCHANGED <<db, conn, paystack, timers, credits, budget>>

-----------------------------------------------------------------------------
(* POST /api/data/buy *)

\* the same SELECT without the test of the status column
ProductsOfAnyStatus(network, bundle_size) ==
    { pr \in Products : /\ pr.network = network
                        /\ pr.bundle_size = bundle_size }

\* SELECT * FROM data_bundle_products
\*  WHERE network = ? AND bundle_size = ? AND status = "active"
ActiveProducts(network, bundle_size) ==
    { pr \in Products : /\ pr.network = network
                        /\ pr.bundle_size = bundle_size
                        /\ pr.status = "active" }

\* `wallets[0].balance < price`: both operands are DECIMAL columns, which
\* mysql2 hands over as strings, so JavaScript compares them as strings
BalanceLessThanPrice(balance, price) ==
    StringLess(DecimalString(balance), DecimalString(price))

\* whether INSERT INTO orders raises: order_id is UNIQUE, and a value
\* longer than beneficiary_number VARCHAR(20) is an error in strict mode
OrderInsertFails(d, orderId, beneficiary_len) ==
    \/ \E i \in DOMAIN d.orders : d.orders[i].order_id = orderId
    \/ beneficiary_len > BeneficiaryMaxLen

\* INSERT INTO orders (...) VALUES (... 'processing')
InsertOrder(d, row) == [d EXCEPT !.orders = Append(@, row)]

\* UPDATE order_sequence SET last_number = last_number + 1
IncrementSequence(d) == [d EXCEPT !.order_sequence = @ + 1]

\* `BUZZ-${seq[0].last_number + 1}`: the order code, by its number
OrderIdFrom(last_number) == last_number + 1

\* the request arrives; the synchronous validation answers 400 or the
\* handler awaits the product SELECT
BuyReceive(p, u, selection, beneficiary_len) ==
    /\ Receive(p)
    /\ IF selection[1] \notin Networks \/ beneficiary_len = 0
       THEN Respond(p, [op |-> "buy", status |-> 400, error |-> "Invalid request"])
       ELSE Await(p, "buy_product",
                  [op |-> "buy", user_id |-> u, network |-> selection[1],
                   bundle_size |-> selection[2], beneficiary_len |-> beneficiary_len])
    /\ UNCHANGED <<db, conn, paystack, timers, credits>>

BuySelectProduct(p) ==
    /\ pc[p] = "buy_product"
    /\ LET product == ActiveProducts(local[p].network, local[p].bundle_size)
       IN  IF product = {}
           THEN Respond(p, [op |-> "buy", status |-> 400,
                            error |-> "Invalid bundle selection",
                            network |-> local[p].network,
                            bundle_size |-> local[p].bundle_size])
           ELSE \E pr \in product :
                   Await(p, "buy_wallet", local[p] @@ [price |-> pr.price])
    /\ UNCHANGED <<db, conn, paystack, timers, credits, budget>>

BuySelectWallet(p) ==
    /\ pc[p] = "buy_wallet"
    /\ IF BalanceLessThanPrice(db.wallets[local[p].user_id], local[p].price)
       THEN Respond(p, [op |-> "buy", status |-> 400,
                        error |-> "Insufficient wallet balance"])
       ELSE Await(p, "buy_sequence",
                  local[p] @@ [balance |-> db.wallets[local[p].user_id]])
    /\ UNCHANGED <<db, conn, paystack, timers, credits, budget>>

\* SELECT last_number FROM order_sequence, and the order code made of it
BuySelectSequence(p) ==
    /\ pc[p] = "buy_sequence"
    /\ Await(p, "buy_start", local[p] @@ [orderId |-> OrderIdFrom(db.order_sequence)])
    /\ UNCHANGED <<db, conn, paystack, timers, credits, budget>>

BuyStartTransaction(p) ==
    /\ pc[p] = "buy_start"
    /\ conn' = StartTransaction(db)
    /\ Await(p, "buy_debit", local[p])
    /\ UNCHANGED <<db, paystack, timers, credits, budget>>

BuyDebit(p) ==
    /\ pc[p] = "buy_debit"
    /\ db' = SubBalance(db, local[p].user_id, local[p].price * 10)
    /\ Await(p, "buy_insert_tx", local[p])
    /\ UNCHANGED <<conn, paystack, timers, credits, budget>>

BuyInsertTransaction(p) ==
    /\ pc[p] = "buy_insert_tx"
    /\ db' = InsertTransaction(db,
                [user_id |-> local[p].user_id,
                 transaction_id |-> FreshTransactionId(db, "DATA"),
                 reference |-> NullRef,
                 type |-> "debit",
                 amount |-> local[p].price,
                 status |-> "completed"])
    /\ Await(p, "buy_insert_order", local[p])
    /\ UNCHANGED <<conn, paystack, timers, credits, budget>>

\* the INSERT INTO orders resolves, or rejects into the inner catch
BuyInsertOrder(p) ==
    /\ pc[p] = "buy_insert_order"
    /\ IF OrderInsertFails(db, local[p].orderId, local[p].beneficiary_len)
       THEN /\ Await(p, "buy_rollback", local[p])
            /\ UNCHANGED db
       ELSE /\ db' = InsertOrder(db,
                        [order_id |-> local[p].orderId,
                         user_id |-> local[p].user_id,
                         network |-> local[p].network,
                         bundle_size |-> local[p].bundle_size,
                         amount |-> local[p].price,
                         payment_reference |-> NullRef,
                         status |-> "processing"])
            /\ Await(p, "buy_increment", local[p])
    /\ UNCHANGED <<conn, paystack, timers, credits, budget>>

BuyIncrementSequence(p) ==
    /\ pc[p] = "buy_increment"
    /\ db' = IncrementSequence(db)
    /\ Await(p, "buy_commit", local[p])
    /\ UNCHANGED <<conn, paystack, timers, credits, budget>>

\* COMMIT resolves; setTimeout schedules the delivery; the success response
BuyCommit(p) ==
    /\ pc[p] = "buy_commit"
    /\ conn' = Commit
    /\ timers' = timers (+) SetToBag({local[p].orderId})
    /\ Respond(p, [op |-> "buy", status |-> 200, order_id |-> local[p].orderId,
                   user_id |-> local[p].user_id, amount |-> local[p].price])
    /\ UNCHANGED <<db, paystack, credits, budget>>

\* the inner catch: ROLLBACK, rethrow, and the outer catch answers 500
BuyRollback(p) ==
    /\ pc[p] = "buy_rollback"
    /\ db' = RolledBack(db, conn)
    /\ conn' = Commit
    /\ Respond(p, [op |-> "buy", status |-> 500, error |-> "Data purchase failed"])
    /\ UNCHANGED <<paystack, timers, credits, budget>>

\* the setTimeout callback: UPDATE orders SET status = "completed",
\* delivered_at = NOW() WHERE order_id = ?; an error is caught and logged
Deliver(orderId) ==
    /\ BagIn(orderId, timers)
    /\ timers' = timers (-) SetToBag({orderId})
    /\ db' = IF db.has_delivered_at
             THEN [db EXCEPT !.orders =
                      [i \in DOMAIN @ |->
                          IF @[i].order_id = orderId
                          THEN [@[i] EXCEPT !.status = "completed"]
                          ELSE @[i]]]
             ELSE db
    /\ UNCHANGED <<conn, paystack, pc, local, res, credits, budget, clock>>

-----------------------------------------------------------------------------
(* POST /api/wallet/transfer *)

\* users.email of the accounts, as stored; the same text is the email of
\* the account's token (req.user.email)
UserEmail(u) == IF u = 1 THEN "ama@buzz.io" ELSE "kofi@buzz.io"

\* recipient_email values of a transfer request
RecipientEmails == {"ama@buzz.io", "AMA@buzz.io", "kofi@buzz.io", "nobody@buzz.io"}

\* `amount` of a transfer request body, in mills
TransferAmounts == {0 - 4000, 0, 4000, 10000}

\* the text the column's collation compares an email by: the collations
\* of users.email are case-insensitive
CollationKey(email) == IF email = "AMA@buzz.io" THEN "ama@buzz.io" ELSE email

\* SELECT id FROM users WHERE email = ?
UsersByEmail(email) ==
    { u \in Users : CollationKey(UserEmail(u)) = CollationKey(email) }

\* the same comparison with the amount taken as a DECIMAL string
BalanceStringLessThanAmount(balance, amount) ==
    StringLess(DecimalString(balance), DecimalString(ToDecimal2(amount)))

\* `senderWallet[0].balance < amount`: a DECIMAL string against a number;
\* JavaScript converts the string and compares the numbers
BalanceLessThanAmount(balance, amount) == balance * 10 < amount

\* a table without the unique index: no insert raises
TransactionInsertNeverFails(d, transaction_id) ==
    FALSE

\* whether INSERT INTO wallet_transactions raises: transaction_id is UNIQUE
TransactionInsertFails(d, transaction_id) ==
    \E i \in DOMAIN d.wallet_transactions :
        d.wallet_transactions[i].transaction_id = transaction_id

\* the request arrives; the synchronous validation answers 400 or the
\* handler awaits the recipient SELECT
TransferReceive(p, u, recipient_email, amount) ==
    /\ Receive(p)
    /\ IF InvalidAmount(amount)
       THEN Respond(p, [op |-> "transfer", status |-> 400, amount |-> amount,
                        error |-> "Valid recipient email and amount required"])
       ELSE IF recipient_email = UserEmail(u)
       THEN Respond(p, [op |-> "transfer", status |-> 400, amount |-> amount,
                        error |-> "Cannot transfer to yourself"])
       ELSE Await(p, "tr_recipient",
                  [op |-> "transfer", user_id |-> u,
                   recipient_email |-> recipient_email, amount |-> amount])
    /\ UNCHANGED <<db, conn, paystack, timers, credits>>

TransferSelectRecipient(p) ==
    /\ pc[p] = "tr_recipient"
    /\ LET recipient == UsersByEmail(local[p].recipient_email)
       IN  IF recipient = {}
           THEN Respond(p, [op |-> "transfer", status |-> 404,
                            error |-> "Recipient not found"])
           ELSE \E id \in recipient :
                   Await(p, "tr_wallet", local[p] @@ [recipient |-> id])
    /\ UNCHANGED <<db, conn, paystack, timers, credits, budget>>

TransferSelectWallet(p) ==
    /\ pc[p] = "tr_wallet"
    /\ IF BalanceLessThanAmount(db.wallets[local[p].user_id], local[p].amount)
       THEN Respond(p, [op |-> "transfer", status |-> 400,
                        error |-> "Insufficient balance"])
       ELSE Await(p, "tr_start", local[p])
    /\ UNCHANGED <<db, conn, paystack, timers, credits, budget>>

TransferStartTransaction(p) ==
    /\ pc[p] = "tr_start"
    /\ conn' = StartTransaction(db)
    /\ Await(p, "tr_debit", local[p])
    /\ UNCHANGED <<db, paystack, timers, credits, budget>>

\* the sender's UPDATE resolves; senderTxId is made of Date.now()
TransferDebit(p) ==
    /\ pc[p] = "tr_debit"
    /\ db' = SubBalance(db, local[p].user_id, local[p].amount)
    /\ Await(p, "tr_insert_out",
             local[p] @@ [senderTxId |-> <<"TRANSFER-OUT", clock>>])
    /\ UNCHANGED <<conn, paystack, timers, credits, budget>>

\* the sender's INSERT resolves, or rejects into the inner catch
TransferInsertOut(p) ==
    /\ pc[p] = "tr_insert_out"
    /\ IF TransactionInsertFails(db, local[p].senderTxId)
       THEN /\ Await(p, "tr_rollback", local[p])
            /\ UNCHANGED db
       ELSE /\ db' = InsertTransaction(db,
                        [user_id |-> local[p].user_id,
                         transaction_id |-> local[p].senderTxId,
                         reference |-> NullRef,
                         type |-> "transfer_out",
                         amount |-> ToDecimal2(local[p].amount),
                         status |-> "completed"])
            /\ Await(p, "tr_credit", local[p])
    /\ UNCHANGED <<conn, paystack, timers, credits, budget>>

\* the recipient's UPDATE resolves; recipientTxId is made of Date.now()
TransferCredit(p) ==
    /\ pc[p] = "tr_credit"
    /\ db' = AddBalance(db, local[p].recipient, local[p].amount)
    /\ Await(p, "tr_insert_in",
             local[p] @@ [recipientTxId |-> <<"TRANSFER-IN", clock>>])
    /\ UNCHANGED <<conn, paystack, timers, credits, budget>>

\* the recipient's INSERT resolves, or rejects into the inner catch
TransferInsertIn(p) ==
    /\ pc[p] = "tr_insert_in"
    /\ IF TransactionInsertFails(db, local[p].recipientTxId)
       THEN /\ Await(p, "tr_rollback", local[p])
            /\ UNCHANGED db
       ELSE /\ db' = InsertTransaction(db,
                        [user_id |-> local[p].recipient,
                         transaction_id |-> local[p].recipientTxId,
                         reference |-> NullRef,
                         type |-> "transfer_in",
                         amount |-> ToDecimal2(local[p].amount),
                         status |-> "completed"])
            /\ Await(p, "tr_commit", local[p])
    /\ UNCHANGED <<conn, paystack, timers, credits, budget>>

TransferCommit(p) ==
    /\ pc[p] = "tr_commit"
    /\ conn' = Commit
    /\ Await(p, "tr_select", local[p])
    /\ UNCHANGED <<db, paystack, timers, credits, budget>>

\* the SELECT of the sender's balance resolves; the success response
TransferSelectBalance(p) ==
    /\ pc[p] = "tr_select"
    /\ Respond(p, [op |-> "transfer", status |-> 200,
                   user_id |-> local[p].user_id, recipient |-> local[p].recipient,
                   amount |-> local[p].amount,
                   senderTxId |-> local[p].senderTxId,
                   recipientTxId |-> local[p].recipientTxId,
                   new_balance |-> db.wallets[local[p].user_id]])
    /\ UNCHANGED <<db, conn, paystack, timers, credits, budget>>

\* the inner catch: ROLLBACK, rethrow, and the outer catch answers 500
TransferRollback(p) ==
    /\ pc[p] = "tr_rollback"
    /\ db' = RolledBack(db, conn)
    /\ conn' = Commit
    /\ Respond(p, [op |-> "transfer", status |-> 500, error |-> "Transfer failed",
                   user_id |-> local[p].user_id, amount |-> local[p].amount])
    /\ UNCHANGED <<paystack, timers, credits, budget>>

\* a millisecond passes
Tick ==
    /\ clock < MaxClock
    /\ clock' = clock + 1
    /\ UNCHANGED <<db, conn, paystack, pc, local, res, timers, credits, budget>>

-----------------------------------------------------------------------------
(* POST /api/signup *)

\* `email` of a signup request body: a new address, and the address of the
\* registered account 1
SignupEmails == {"esi@buzz.io", "ama@buzz.io"}

\* what the two synchronous tests find in the body
SignupBodies == {"complete", "field missing", "passwords differ"}

\* SELECT id FROM users WHERE email = ?
ExistingByEmail(d, email) ==
    { i \in DOMAIN d.users : CollationKey(d.users[i].email) = CollationKey(email) }

\* the request arrives: the two tests on the body, then the handler awaits
\* the SELECT
SignupReceive(p, email, body) ==
    /\ Receive(p)
    /\ IF body = "field missing"
       THEN Respond(p, [op |-> "signup", status |-> 400,
                        error |-> "All fields are required"])
       ELSE IF body = "passwords differ"
       THEN Respond(p, [op |-> "signup", status |-> 400,
                        error |-> "Passwords do not match"])
       ELSE Await(p, "su_select", [op |-> "signup", email |-> email])
    /\ UNCHANGED <<db, conn, paystack, timers, credits>>

\* the SELECT resolves: a registered email answers 409
SignupSelect(p) ==
    /\ pc[p] = "su_select"
    /\ IF ExistingByEmail(db, local[p].email) # {}
       THEN Respond(p, [op |-> "signup", status |-> 409,
                        error |-> "Email already registered"])
       ELSE Await(p, "su_hash", local[p])
    /\ UNCHANGED <<db, conn, paystack, timers, credits, budget>>

\* bcrypt.genSalt and bcrypt.hash resolve
SignupHash(p) ==
    /\ pc[p] = "su_hash"
    /\ Await(p, "su_insert_user", local[p])
    /\ UNCHANGED <<db, conn, paystack, timers, credits, budget>>

\* INSERT INTO users: the row gets the next AUTO_INCREMENT id; an email
\* registered in the meantime violates UNIQUE and the catch answers 500
SignupInsertUser(p) ==
    /\ pc[p] = "su_insert_user"
    /\ IF ExistingByEmail(db, local[p].email) # {}
       THEN /\ db' = [db EXCEPT !.users_auto_increment = @ + 1]
            /\ Respond(p, [op |-> "signup", status |-> 500, error |-> "Server error"])
       ELSE /\ db' = [db EXCEPT
                        !.users = Append(@, [id |-> db.users_auto_increment,
                                             email |-> local[p].email]),
                        !.users_auto_increment = @ + 1]
            /\ Await(p, "su_insert_wallet",
                     local[p] @@ [insertId |-> db.users_auto_increment])
    /\ UNCHANGED <<conn, paystack, timers, credits, budget>>

\* INSERT INTO wallets (user_id, balance, level) VALUES (?, 0.00, "Bronze"),
\* then the token is signed and the answer is 201
SignupInsertWallet(p) ==
    /\ pc[p] = "su_insert_wallet"
    /\ db' = [db EXCEPT !.wallets = @ @@ (local[p].insertId :> 0)]
    /\ Respond(p, [op |-> "signup", status |-> 201, id |-> local[p].insertId,
                   email |-> local[p].email])
    /\ UNCHANGED <<conn, paystack, timers, credits, budget>>

\* the INSERT INTO wallets rejects (the connection is lost, the statement
\* times out): the catch answers 500 and nothing undoes the users row
SignupInsertWalletRejected(p) ==
    /\ pc[p] = "su_insert_wallet"
    /\ Respond(p, [op |-> "signup", status |-> 500, error |-> "Server error"])
    /\ UNCHANGED <<db, conn, paystack, timers, credits, budget>>

-----------------------------------------------------------------------------
(* Specifications *)

\* the server after initializeDB, with accounts registered and their
\* balances funded by top-ups settled earlier
InitWith(Procs, Balances, Schemas, Requests) ==
    /\ \E b \in Balances, delivered_at \in Schemas :
          db = [wallets |-> b,
                wallet_transactions |-> SeedEntries(1, b[1]) \o SeedEntries(2, b[2]),
                orders |-> <<>>,
                order_sequence |-> InitialLastNumber,
                has_delivered_at |-> delivered_at,
                users |-> [u \in Users |-> [id |-> u, email |-> UserEmail(u)]],
                users_auto_increment |-> 3]
    /\ conn = Commit
    /\ paystack = [r \in Refs |-> [status |-> "none", amount |-> 0, user_id |-> 0]]
    /\ pc = [p \in Procs |-> "idle"]
    /\ local = [p \in Procs |-> NoLocal]
    /\ res = [p \in Procs |-> NoResponse]
    /\ timers = EmptyBag
    /\ credits = [r \in Refs |-> NoCredits]
    /\ budget = Requests
    /\ clock = 0

Settlement(p) ==
    \/ \E u \in Users, amount \in TopupAmounts : TopupInitialize(p, u, amount)
    \/ TopupPosted(p)
    \/ TopupPostFailed(p)
    \/ TopupInsert(p)
    \/ \E signed \in BOOLEAN, event \in EventKinds, r \in Refs :
          WebhookReceive(p, signed, event, r)
    \/ \E u \in Users, r \in Refs : VerifyReceive(p, u, r)
    \/ VerifyGet(p)
    \/ VerifyStartTransaction(p)
    \/ VerifyUpdateTransaction(p)
    \/ VerifyUpdateWallet(p)
    \/ VerifyCommit(p)
    \/ VerifySelect(p)

Buy(p, Buyers, Sel, Lens) ==
    \/ \E u \in Buyers, selection \in Sel, beneficiary_len \in Lens :
          BuyReceive(p, u, selection, beneficiary_len)
    \/ BuySelectProduct(p)
    \/ BuySelectWallet(p)
    \/ BuySelectSequence(p)
    \/ BuyStartTransaction(p)
    \/ BuyDebit(p)
    \/ BuyInsertTransaction(p)
    \/ BuyInsertOrder(p)
    \/ BuyIncrementSequence(p)
    \/ BuyCommit(p)
    \/ BuyRollback(p)

\* one request at a time: a single request slot
SeqProcs == {1}
InitSeq == InitWith(SeqProcs, SeedWallets, BOOLEAN, MaxRequests)
NextSeq ==
    \/ \E p \in SeqProcs : Settlement(p)
    \/ \E p \in SeqProcs : Buy(p, Users, Selections, BeneficiaryLens)
    \/ \E orderId \in BagToSet(timers) : Deliver(orderId)
    \/ \E r \in Refs : CustomerPays(r)
SpecSeq == InitSeq /\ [][NextSeq]_vars

\* the same with a running process: a handler that can take its next step
\* takes it, and a delivery callback that is armed is run
OrderCodes == (InitialLastNumber + 1)..(InitialLastNumber + MaxRequests)
FairSeq ==
    /\ SpecSeq
    /\ WF_vars(\E p \in SeqProcs :
                  \/ Settlement(p)
                  \/ Buy(p, Users, Selections, BeneficiaryLens))
    /\ \A orderId \in OrderCodes : WF_vars(Deliver(orderId))

\* purchases of one product racing in three request slots
BuyProcs == {1, 2, 3}
BuySelections == { <<"MTN", "1GB">> }
BuyLens == {10}
InitBuy == InitWith(BuyProcs, { [u \in Users |-> 2000] }, BOOLEAN, MaxPurchases)
NextBuy ==
    \/ \E p \in BuyProcs : Buy(p, {1}, BuySelections, BuyLens)
    \/ \E orderId \in BagToSet(timers) : Deliver(orderId)
SpecBuy == InitBuy /\ [][NextBuy]_vars

\* purchases of the two accounts racing: slot p carries the requests of
\* account p, one at a time
AccountProcs == Users
InitAccounts == InitWith(AccountProcs, { [u \in Users |-> 2000] }, {TRUE}, MaxPurchases)
NextAccounts ==
    \/ \E p \in AccountProcs : Buy(p, {p}, BuySelections, BuyLens)
    \/ \E orderId \in BagToSet(timers) : Deliver(orderId)
SpecAccounts == InitAccounts /\ [][NextAccounts]_vars

\* settlements racing in two request slots
SettleProcs == {1, 2}
InitSettle == InitWith(SettleProcs, { [u \in Users |-> 0] }, {FALSE}, MaxRequests)
NextSettle ==
    \/ \E p \in SettleProcs : Settlement(p)
    \/ \E r \in Refs : CustomerPays(r)
SpecSettle == InitSettle /\ [][NextSettle]_vars

Transfer(p) ==
    \/ \E u \in Users, recipient_email \in RecipientEmails, amount \in TransferAmounts :
          TransferReceive(p, u, recipient_email, amount)
    \/ TransferSelectRecipient(p)
    \/ TransferSelectWallet(p)
    \/ TransferStartTransaction(p)
    \/ TransferDebit(p)
    \/ TransferInsertOut(p)
    \/ TransferCredit(p)
    \/ TransferInsertIn(p)
    \/ TransferCommit(p)
    \/ TransferSelectBalance(p)
    \/ TransferRollback(p)

\* transfers racing in two request slots
TransferProcs == {1, 2}
TransferWallets == { [u \in Users |-> IF u = 1 THEN 900 ELSE 2000] }
InitTransfer == InitWith(TransferProcs, TransferWallets, {FALSE}, MaxTransfers)
NextTransfer ==
    \/ \E p \in TransferProcs : Transfer(p)
    \/ Tick
SpecTransfer == InitTransfer /\ [][NextTransfer]_vars

\* transfers one at a time
TransferSeqProcs == {1}
InitTransferSeq == InitWith(TransferSeqProcs, TransferWallets, {FALSE}, MaxTransfers)
NextTransferSeq ==
    \/ \E p \in TransferSeqProcs : Transfer(p)
    \/ Tick
SpecTransferSeq == InitTransferSeq /\ [][NextTransferSeq]_vars

\* registrations racing in two request slots
SignupProcs == {1, 2}
Signup(p) ==
    \/ \E email \in SignupEmails, body \in SignupBodies : SignupReceive(p, email, body)
    \/ SignupSelect(p)
    \/ SignupHash(p)
    \/ SignupInsertUser(p)
    \/ SignupInsertWallet(p)
    \/ SignupInsertWalletRejected(p)
InitSignup == InitWith(SignupProcs, SeedWallets, {FALSE}, MaxSignups)
NextSignup == \E p \in SignupProcs : Signup(p)
SpecSignup == InitSignup /\ [][NextSignup]_vars

\* every modelled route in one request slot
LedgerProcs == {1}
InitLedger == InitWith(LedgerProcs, SeedWallets, {TRUE}, MaxRequests)
NextLedger ==
    \/ \E p \in LedgerProcs : Settlement(p)
    \/ \E p \in LedgerProcs : Buy(p, Users, BuySelections, BeneficiaryLens)
    \/ \E p \in LedgerProcs : Transfer(p)
    \/ \E orderId \in BagToSet(timers) : Deliver(orderId)
    \/ \E r \in Refs : CustomerPays(r)
    \/ Tick
SpecLedger == InitLedger /\ [][NextLedger]_vars

\* the wallet routes (top-up, settlement, transfer) in one request slot
WalletProcs == {1}
InitWallet == InitWith(WalletProcs, TransferWallets, {FALSE}, MaxRequests)
NextWallet ==
    \/ \E p \in WalletProcs : Settlement(p)
    \/ \E p \in WalletProcs : Transfer(p)
    \/ \E r \in Refs : CustomerPays(r)
    \/ Tick
SpecWallet == InitWallet /\ [][NextWallet]_vars

-----------------------------------------------------------------------------
(* Properties *)

CreditKinds == {"credit", "transfer_in", "refund"}
DebitKinds == {"debit", "purchase", "transfer_out"}

\* the completed entries of account u whose kind is in Kinds
CompletedEntries(u, Kinds) ==
    LET Test(row) == row.user_id = u /\ row.status = "completed" /\ row.type \in Kinds
    IN  SelectSeq(db.wallet_transactions, Test)

\* the balance the completed entries of account u add up to
LedgerBalance(u) ==
    SumAmounts(CompletedEntries(u, CreditKinds)) - SumAmounts(CompletedEntries(u, DebitKinds))

\* no request is being handled and the session has no open transaction
Quiescent == (\A p \in DOMAIN pc : pc[p] = "idle") /\ ~conn.inTx

\* slot p holds an order code it read from the counter
HoldsOrderId(p) ==
    pc[p] \in {"buy_start", "buy_debit", "buy_insert_tx", "buy_insert_order",
               "buy_increment", "buy_commit", "buy_rollback"}

\* C1: whenever no request is in progress, each wallet balance equals the
\* completed credit-direction amounts minus the completed debit-direction
\* amounts of its account.
C1_Reconstruction ==
    Quiescent => \A u \in Users : db.wallets[u] = LedgerBalance(u)

\* C2: no wallet balance is ever negative, whatever the interleaving of
\* the purchases debiting it.
C2_BalanceNeverNegative == \A u \in Users : db.wallets[u] >= 0

\* C3: once two valid charge.success notifications for the reference of a
\* recorded top-up have been handled, one after the other, and nothing
\* else has settled it, the wallet has been credited exactly once and the
\* deliveries were answered with success.
C3_TwoDeliveriesCreditOnce ==
    \A r \in Refs :
        (credits[r].delivered = 2 /\ credits[r].verify = 0 /\ Quiescent) =>
            /\ credits[r].webhook = 1
            /\ \A p \in DOMAIN res :
                  (/\ res[p].op = "webhook"
                   /\ res[p].reference = r
                   /\ res[p].signed
                   /\ res[p].event = "charge.success") => res[p].status = 200

\* C4: for one top-up reference, the webhook and the manual verification
\* together credit a balance at most once.
C4_AppliedAtMostOnce ==
    \A r \in Refs : credits[r].webhook + credits[r].verify <= 1

\* C5: a manual verification of a reference that a verification has
\* already credited leaves every wallet balance unchanged.
C5_SecondVerifyLeavesBalance ==
    [][\A p \in DOMAIN pc :
          (/\ pc[p] = "vf_update_wallet"
           /\ credits[local[p].reference].verify >= 1
           /\ pc'[p] # "vf_update_wallet")
          => db'.wallets = db.wallets]_vars

\* C6: once the manual verification has settled the pending entry of a
\* reference, no webhook for that reference credits anything, and with
\* that single verification the owner's balance has grown by exactly the
\* entry's amount and no other balance has grown.
C6_VerifyThenWebhookCreditsOnce ==
    \A r \in Refs :
        credits[r].settled_by = "verify" =>
            /\ credits[r].webhook = 0
            /\ (credits[r].verify = 1 /\ Quiescent) =>
                  \A i \in DOMAIN db.wallet_transactions :
                      db.wallet_transactions[i].reference = r =>
                          \A u \in Users :
                              credits[r].to[u] =
                                  IF u = db.wallet_transactions[i].user_id
                                  THEN db.wallet_transactions[i].amount ELSE 0

\* the verification settled the entry and a valid charge.success
\* notification for it has been handled after
C6_Witness ==
    \E r \in Refs :
        /\ credits[r].settled_by = "verify"
        /\ credits[r].verify = 1
        /\ credits[r].delivered = 1
        /\ Quiescent
        /\ res[1].op = "webhook"
        /\ res[1].reference = r
        /\ \E u \in Users : db.wallets[u] = credits[r].to[u] /\ credits[r].to[u] > 0

\* C7: once two valid charge.success notifications for the reference of a
\* recorded top-up have been handled in two request slots at once, and no
\* verification has credited it, the wallet has been credited exactly once.
C7_ConcurrentWebhooksCreditOnce ==
    \A r \in Refs :
        (credits[r].delivered = 2 /\ credits[r].verify = 0 /\ Quiescent)
            => credits[r].webhook = 1

\* C8: no two purchases in progress hold the same order code.
C8_DistinctCodesInFlight ==
    \A p, q \in DOMAIN pc :
        (p # q /\ HoldsOrderId(p) /\ HoldsOrderId(q))
            => local[p].orderId # local[q].orderId

\* C9: the orders, in the order of their creation, carry strictly
\* increasing codes (so no two carry the same code).
C9_OrderCodesIncreasing ==
    \A i, j \in DOMAIN db.orders :
        i < j => db.orders[i].order_id < db.orders[j].order_id

\* C10: a purchase that reads a balance below the price ends at once with
\* "Insufficient wallet balance" and changes no table.
C10_InsufficientBalanceRejected ==
    [][\A p \in DOMAIN pc :
          (/\ pc[p] = "buy_wallet"
           /\ db.wallets[local[p].user_id] < local[p].price
           /\ pc'[p] # "buy_wallet")
          => (/\ pc'[p] = "idle"
              /\ res'[p].status = 400
              /\ db' = db)]_vars

\* slot p has just answered a webhook notification
WebhookAnswered(p) ==
    /\ pc[p] = "idle"
    /\ budget' < budget
    /\ pc'[p] = "idle"
    /\ res'[p].op = "webhook"

\* C19: a notification whose signature does not match is answered with
\* "Invalid signature" (status 401) and changes no table.
C19_InvalidSignatureRejected ==
    [][\A p \in DOMAIN pc :
          (WebhookAnswered(p) /\ ~res'[p].signed)
              => (res'[p].status = 401 /\ db' = db)]_vars

\* C20: a correctly signed notification of an event other than
\* charge.success is answered with success (status 200) and changes no
\* table.
C20_OtherEventsAccepted ==
    [][\A p \in DOMAIN pc :
          (WebhookAnswered(p) /\ res'[p].signed /\ res'[p].event # "charge.success")
              => (res'[p].status = 200 /\ db' = db)]_vars

\* C11: with one request at a time, a purchase of an active product by an
\* account whose balance covers the price is not turned away at the
\* balance test; with a beneficiary number the column can hold its order
\* insert succeeds; and when it commits, the balance has gone down by the
\* price, one completed ledger entry for the price and one order in status
\* processing, with a code above every earlier code, have been added, and
\* the answer is a success.
C11_PurchaseSucceeds ==
    [][\A p \in DOMAIN pc :
          /\ (/\ pc[p] = "buy_wallet"
              /\ db.wallets[local[p].user_id] >= local[p].price
              /\ pc'[p] # "buy_wallet") => pc'[p] = "buy_sequence"
          /\ (/\ pc[p] = "buy_insert_order"
              /\ local[p].beneficiary_len <= BeneficiaryMaxLen
              /\ pc'[p] # "buy_insert_order") => pc'[p] = "buy_increment"
          /\ (pc[p] = "buy_commit" /\ pc'[p] = "idle") =>
                LET before == conn.snapshot
                    u == local[p].user_id
                    entries == db'.wallet_transactions
                    orders == db'.orders
                IN  /\ res'[p].status = 200
                    /\ db'.wallets[u] = before.wallets[u] - local[p].price
                    /\ \A v \in Users \ {u} : db'.wallets[v] = before.wallets[v]
                    /\ Len(entries) = Len(before.wallet_transactions) + 1
                    /\ entries[Len(entries)].user_id = u
                    /\ entries[Len(entries)].amount = local[p].price
                    /\ entries[Len(entries)].status = "completed"
                    /\ Len(orders) = Len(before.orders) + 1
                    /\ orders[Len(orders)].status = "processing"
                    /\ orders[Len(orders)].user_id = u
                    /\ \A i \in 1..(Len(orders) - 1) :
                          orders[i].order_id < orders[Len(orders)].order_id]_vars

\* ledger entry `entry` and order `order` name each other: the order's
\* payment_reference is the entry's transaction_id, or the entry's
\* reference is the order's code
Linked(entry, order) ==
    \/ order.payment_reference # NullRef
          /\ entry.transaction_id = order.payment_reference
    \/ entry.reference # NullRef /\ entry.reference = order.order_id

\* C12: every order is linked to exactly one ledger entry, that entry has
\* kind purchase, and no ledger entry is linked to two orders.
C12_OrderLinkedToPurchaseEntry ==
    LET entries == db.wallet_transactions
        orders == db.orders
    IN  /\ \A i \in DOMAIN orders :
              /\ Cardinality({ k \in DOMAIN entries : Linked(entries[k], orders[i]) }) = 1
              /\ \A k \in DOMAIN entries :
                    Linked(entries[k], orders[i]) => entries[k].type = "purchase"
        /\ \A k \in DOMAIN entries :
              Cardinality({ i \in DOMAIN orders : Linked(entries[k], orders[i]) }) <= 1

\* the orders of account u
OrdersOf(u) == { i \in DOMAIN db.orders : db.orders[i].user_id = u }

\* C13: whenever no request is in progress, every completed purchase debit
\* of an account has an order of its own: the account has at least as
\* many orders as completed purchase debits.
C13_DebitsHaveOrders ==
    Quiescent =>
        \A u \in Users :
            Len(CompletedEntries(u, {"debit", "purchase"})) <= Cardinality(OrdersOf(u))

\* the completed entries of kind `kind`, of all accounts
CompletedOfKind(kind) ==
    LET Test(row) == row.status = "completed" /\ row.type = kind
    IN  SelectSeq(db.wallet_transactions, Test)

\* C14: whenever no request is in progress, every transfer has been
\* applied on both sides or on none: the transfer_out and transfer_in
\* entries add up to the same amount, and each balance is what the
\* account's completed entries add up to.
C14_TransferAllOrNothing ==
    Quiescent =>
        /\ SumAmounts(CompletedOfKind("transfer_out"))
              = SumAmounts(CompletedOfKind("transfer_in"))
        /\ \A u \in Users : db.wallets[u] = LedgerBalance(u)

\* C15: a transfer whose recipient email matches no account ends at once
\* with "Recipient not found", and a transfer of more than the sender's
\* balance ends at once with "Insufficient balance"; neither changes a
\* balance or a ledger entry.
C15_RejectedTransferChangesNothing ==
    [][\A p \in DOMAIN pc :
          /\ (/\ pc[p] = "tr_recipient"
              /\ UsersByEmail(local[p].recipient_email) = {}
              /\ pc'[p] # "tr_recipient")
             => (/\ pc'[p] = "idle"
                 /\ res'[p].status = 404
                 /\ res'[p].error = "Recipient not found"
                 /\ db' = db)
          /\ (/\ pc[p] = "tr_wallet"
              /\ db.wallets[local[p].user_id] * 10 < local[p].amount
              /\ pc'[p] # "tr_wallet")
             => (/\ pc'[p] = "idle"
                 /\ res'[p].status = 400
                 /\ res'[p].error = "Insufficient balance"
                 /\ db' = db)]_vars

\* a transfer of more than the balance has been turned away and the
\* wallets and the ledger are as they were seeded
C15_Witness ==
    /\ pc[1] = "idle"
    /\ res[1].op = "transfer"
    /\ res[1].status = 400
    /\ res[1].error = "Insufficient balance"
    /\ db.wallets \in TransferWallets
    /\ CompletedOfKind("transfer_out") = <<>>
    /\ CompletedOfKind("transfer_in") = <<>>

\* C16: a transfer whose recipient email is looked up to the sender's own
\* account ends at once with "Cannot transfer to yourself" and changes no
\* balance and no ledger entry.
C16_SelfTransferRejected ==
    [][\A p \in DOMAIN pc :
          (/\ pc[p] = "tr_recipient"
           /\ local[p].user_id \in UsersByEmail(local[p].recipient_email)
           /\ pc'[p] # "tr_recipient")
          => (/\ pc'[p] = "idle"
              /\ res'[p].status = 400
              /\ res'[p].error = "Cannot transfer to yourself"
              /\ db' = db)]_vars

\* C17: when a transfer, run alone, commits, exactly two ledger entries
\* have been added since it began: a completed transfer_out of the sender
\* and a completed transfer_in of the recipient, both for the amount, and
\* both carrying the same reference.
C17_TwoLinkedEntries ==
    [][\A p \in DOMAIN pc :
          (pc[p] = "tr_commit" /\ pc'[p] = "tr_select") =>
              LET entries == db'.wallet_transactions
                  n == Len(entries)
              IN  /\ n = Len(conn.snapshot.wallet_transactions) + 2
                  /\ entries[n - 1].type = "transfer_out"
                  /\ entries[n - 1].user_id = local[p].user_id
                  /\ entries[n].type = "transfer_in"
                  /\ entries[n].user_id = local[p].recipient
                  /\ \A k \in {n - 1, n} :
                        /\ entries[k].status = "completed"
                        /\ entries[k].amount = ToDecimal2(local[p].amount)
                  /\ entries[n - 1].reference # NullRef
                  /\ entries[n - 1].reference = entries[n].reference]_vars

\* slot p has updated the sender's wallet of its transfer and not yet the
\* recipient's
HoldsSenderOnly(p) == pc[p] \in {"tr_insert_out", "tr_credit"}

\* C18: transfers take the two wallets in one fixed order: no two
\* transfers in progress have each updated its sender's wallet while the
\* next wallet each will update is the one the other has updated.
C18_FixedWalletOrder ==
    \A p, q \in DOMAIN pc :
        (p # q /\ HoldsSenderOnly(p) /\ HoldsSenderOnly(q)) =>
            ~(/\ local[p].recipient = local[q].user_id
              /\ local[q].recipient = local[p].user_id
              /\ local[p].user_id # local[q].user_id)

\* C21: no step of a top-up initialisation changes a wallet balance; the
\* steps before the insert change no table, and the insert appends exactly
\* one entry: kind credit, status pending, owned by the requesting account,
\* under the provider's reference, for the requested amount.
C21_TopupStartsPending ==
    [][\A p \in DOMAIN pc :
          /\ (pc[p] = "idle" /\ pc'[p] = "ti_post") => db' = db
          /\ (pc[p] = "ti_post" /\ pc'[p] # "ti_post") => db' = db
          /\ (pc[p] = "ti_insert" /\ pc'[p] # "ti_insert") =>
                /\ db'.wallets = db.wallets
                /\ db'.orders = db.orders
                /\ db'.wallet_transactions \in
                      { Append(db.wallet_transactions, e) :
                          e \in { [user_id |-> local[p].user_id,
                                   transaction_id |-> id,
                                   reference |-> local[p].reference,
                                   type |-> "credit",
                                   amount |-> ToDecimal2(local[p].amount),
                                   status |-> "pending"] :
                                     id \in {FreshTransactionId(db, "PAY")} } }
                /\ res'[p].status = 200]_vars

\* a top-up has been initialised: its pending credit entry is recorded and
\* no balance has moved from its seed
C21_Witness ==
    /\ pc[1] = "idle"
    /\ res[1].op = "topup"
    /\ res[1].status = 200
    /\ db.wallets \in SeedWallets
    /\ \E i \in DOMAIN db.wallet_transactions :
          /\ db.wallet_transactions[i].reference = res[1].reference
          /\ db.wallet_transactions[i].status = "pending"
          /\ db.wallet_transactions[i].type = "credit"

\* C22: a top-up initialisation or a transfer whose amount is zero or
\* negative is answered 400 at once with the handler's amount error and
\* changes no table; no such request ever gets past the validation, so none
\* of the later steps (which are the only ones that write) runs for it.
C22_InvalidAmountRejected ==
    /\ [](\A p \in DOMAIN pc :
            (pc[p] # "idle" /\ local[p].op \in {"topup", "transfer"})
                => local[p].amount > 0)
    /\ [][\A p \in DOMAIN pc :
            (/\ pc[p] = "idle"
             /\ pc'[p] = "idle"
             /\ budget' # budget
             /\ res'[p].op \in {"topup", "transfer"}
             /\ res'[p].amount <= 0)
            => (/\ res'[p].status = 400
                /\ res'[p].error = IF res'[p].op = "topup"
                                   THEN "Valid amount is required"
                                   ELSE "Valid recipient email and amount required"
                /\ db' = db)]_vars

\* a negative amount has just been refused while the seeded balances and
\* the empty ledger stand
C22_Witness ==
    /\ res[1].op \in {"topup", "transfer"}
    /\ res[1].status = 400
    /\ "amount" \in DOMAIN res[1]
    /\ res[1].amount < 0
    /\ res[1].error \in {"Valid amount is required",
                         "Valid recipient email and amount required"}

\* C23: in every state every row of users has a row of wallets (user_id is
\* UNIQUE, so it cannot have two).
C23_EveryAccountHasWallet ==
    \A i \in DOMAIN db.users : db.users[i].id \in DOMAIN db.wallets

\* C24: a delivery callback changes an order only when the order is in
\* status processing, and then moves it to completed: a callback that
\* finds the order of its code in any other status writes nothing.
C24_DeliveryOnlyFromProcessing ==
    [][\A orderId \in BagToSet(timers) :
          (CopiesIn(orderId, timers') < CopiesIn(orderId, timers)) =>
             \A i \in DOMAIN db.orders :
                (db.orders[i].order_id = orderId /\ db.has_delivered_at) =>
                    db.orders[i].status = "processing"]_vars

\* C25: an order row is created in status pending_payment or processing,
\* and a completed order stays completed: no step takes the row away or
\* gives it another status.
C25_OrdersNeverReopened ==
    [][/\ \A i \in DOMAIN db.orders :
             db.orders[i].status = "completed" =>
                \E j \in DOMAIN db'.orders :
                    /\ db'.orders[j].order_id = db.orders[i].order_id
                    /\ db'.orders[j].status = "completed"
       /\ \A j \in DOMAIN db'.orders :
             (\A i \in DOMAIN db.orders :
                 db.orders[i].order_id # db'.orders[j].order_id)
             => db'.orders[j].status \in {"pending_payment", "processing"}]_vars

\* the ledger as it stands without the statements of an open transaction
DurableEntries(d, c) == RolledBack(d, c).wallet_transactions

\* C26: once an entry is durably recorded no step changes its owner, kind,
\* reference, amount or identifier, no step removes it, and once it is
\* completed no step changes it at all.  (The one statement that writes
\* another column, the webhook's UPDATE ... SET amount = ?, is never
\* reached: see WebhookReceive.)
C26_EntriesImmutable ==
    [][LET old == DurableEntries(db, conn)
           new == DurableEntries(db', conn')
       IN  /\ Len(new) >= Len(old)
           /\ \A i \in DOMAIN old :
                 /\ new[i].user_id = old[i].user_id
                 /\ new[i].type = old[i].type
                 /\ new[i].reference = old[i].reference
                 /\ new[i].amount = old[i].amount
                 /\ new[i].transaction_id = old[i].transaction_id
                 /\ old[i].status = "completed" => new[i] = old[i]]_vars

\* a top-up entry was completed by a verification and a second
\* verification of the same reference has run over it since
C26_Witness ==
    /\ pc[1] = "idle"
    /\ \E r \in Refs :
          /\ credits[r].verify >= 2
          /\ \E i \in DOMAIN db.wallet_transactions :
                /\ db.wallet_transactions[i].reference = r
                /\ db.wallet_transactions[i].status = "completed"

\* C27: a verification, run alone, adds to the caller's balance only when
\* its transaction found a pending entry with the reference owned by the
\* caller and completed it; for a reference without such an entry the
\* balances stay as they are.
C27_VerifyCreditsOnlyPendingEntry ==
    [][\A p \in DOMAIN pc :
          (pc[p] = "vf_update_wallet" /\ pc'[p] = "vf_commit") =>
             \/ /\ conn.inTx
                /\ Len(PendingByReferenceAndUser(conn.snapshot, local[p].reference,
                                                 local[p].user_id)) > 0
                /\ Len(PendingByReferenceAndUser(db, local[p].reference,
                                                 local[p].user_id)) = 0
             \/ db'.wallets = db.wallets]_vars

\* the positions of the ledger whose row differs between d and e
ChangedEntries(d, e) ==
    { i \in DOMAIN d.wallet_transactions :
         i \notin DOMAIN e.wallet_transactions
         \/ e.wallet_transactions[i] # d.wallet_transactions[i] }

EntriesOf(d, u) ==
    LET Test(row) == row.user_id = u
    IN  SelectSeq(d.wallet_transactions, Test)

\* C29: a purchase of an active product with a beneficiary number the
\* column can hold, once past the balance test, goes through to its commit
\* and a success answer whatever purchases of the other account run beside
\* it, and none of its steps changes the other account's balance or ledger
\* entries.
C29_AccountsIndependent ==
    [][\A p \in DOMAIN pc :
          (local[p].op = "buy" /\ pc'[p] # pc[p]) =>
             /\ pc'[p] # "buy_rollback"
             /\ pc[p] = "buy_commit" => res'[p].status = 200
             /\ \A v \in Users \ {local[p].user_id} :
                   /\ db'.wallets[v] = db.wallets[v]
                   /\ EntriesOf(db', v) = EntriesOf(db, v)]_vars

\* C30: in every state the transaction_id values of the ledger entries are
\* pairwise distinct, whatever the clock instant the top-ups, purchases
\* and transfers that wrote them ran at.  (Two transfers within one
\* millisecond build the same identifiers; the unique index refuses the
\* second insert and that transfer fails.)
C30_EntryIdentifiersDistinct ==
    \A i, j \in DOMAIN db.wallet_transactions :
        db.wallet_transactions[i].transaction_id =
            db.wallet_transactions[j].transaction_id => i = j

\* a transfer has failed in the millisecond in which an earlier transfer
\* wrote its entries
C30_Witness ==
    /\ pc[1] = "idle"
    /\ res[1].op = "transfer"
    /\ res[1].status = 500
    /\ \E i \in DOMAIN db.wallet_transactions :
          db.wallet_transactions[i].transaction_id = <<"TRANSFER-OUT", clock>>

\* C31: once a signed charge.success notification has been answered, the
\* entry recorded under its reference is completed, the amount on it is the
\* amount of the payload converted from minor units, and that amount has
\* been added to a balance for the reference.
C31_PayloadAmountApplied ==
    \A p \in DOMAIN pc :
        (/\ pc[p] = "idle"
         /\ res[p].op = "webhook"
         /\ res[p].signed
         /\ res[p].event = "charge.success")
        => LET r == res[p].reference
               paid == ToDecimal2(AmountInGHS(paystack[r].amount))
           IN  \A i \in DOMAIN db.wallet_transactions :
                  db.wallet_transactions[i].reference = r =>
                     /\ db.wallet_transactions[i].status = "completed"
                     /\ db.wallet_transactions[i].amount = paid
                     /\ credits[r].webhook + credits[r].verify >= 1

\* C32: under a running process whose armed delivery callbacks are run,
\* every order that is in status processing is eventually in status
\* completed.
C32_ProcessingLeadsToCompleted ==
    \A orderId \in OrderCodes :
        (\E i \in DOMAIN db.orders :
            /\ db.orders[i].order_id = orderId
            /\ db.orders[i].status = "processing")
        ~> (\E i \in DOMAIN db.orders :
               /\ db.orders[i].order_id = orderId
               /\ db.orders[i].status = "completed")

\* C33: a purchase whose network is not accepted, or whose (network,
\* bundle_size) has no active row in the catalog, is answered 400 before
\* any statement that writes: no request gets past the product SELECT
\* without an active product, and the rejecting step changes no balance,
\* ledger entry, order or counter.
C33_InvalidSelectionRejected ==
    /\ [](\A p \in DOMAIN pc :
            (local[p].op = "buy" /\ pc[p] \notin {"idle", "buy_product"})
                => \E pr \in Products :
                      /\ pr.network = local[p].network
                      /\ pr.bundle_size = local[p].bundle_size
                      /\ pr.status = "active")
    /\ [][\A p \in DOMAIN pc :
            /\ (/\ pc[p] = "buy_product"
                /\ \A pr \in Products :
                      \/ pr.network # local[p].network
                      \/ pr.bundle_size # local[p].bundle_size
                      \/ pr.status # "active"
                /\ pc'[p] # "buy_product")
               => (/\ pc'[p] = "idle"
                   /\ res'[p].status = 400
                   /\ res'[p].error = "Invalid bundle selection"
                   /\ db' = db)
            /\ (/\ pc[p] = "idle"
                /\ budget' # budget
                /\ \/ pc'[p] = "buy_product"
                   \/ pc'[p] = "idle" /\ res'[p].op = "buy")
               => db' = db]_vars

\* the purchase of the inactive AirtelTigo bundle has been refused with
\* the tables as seeded
C33_Witness ==
    /\ pc[1] = "idle"
    /\ res[1].op = "buy"
    /\ res[1].status = 400
    /\ res[1].error = "Invalid bundle selection"
    /\ res[1].network = "AirtelTigo"
    /\ db.orders = <<>>
    /\ db.order_sequence = InitialLastNumber
    /\ db.wallets \in SeedWallets

\* C34: whenever no transfer is in flight, the balances of all wallets add
\* up to what they added up to before the transfers began, whichever
\* transfers succeeded or failed and however they interleaved.
C34_TransfersConserveMoney ==
    Quiescent =>
        \E b \in TransferWallets :
            db.wallets[1] + db.wallets[2] = b[1] + b[2]

\* C35: taking the tables as they stand without the statements of an open
\* transaction, last_number never goes down and no order carries a code
\* above last_number.  (With one request at a time this holds, and
\* last_number is 4000 plus the number of orders whenever nothing is in
\* flight.)
C35_CounterCoversOrders ==
    /\ [][RolledBack(db', conn').order_sequence
             >= RolledBack(db, conn).order_sequence]_vars
    /\ [](\A i \in DOMAIN RolledBack(db, conn).orders :
             RolledBack(db, conn).orders[i].order_id
                <= RolledBack(db, conn).order_sequence)

====
